---- MODULE Spec2Model ----
(***************************************************************************)
(* Model of the study-session aggregate of Galeos93/socrates (backend):    *)
(* LearningPlan -> StudySession -> SessionQuestion -> AnswerAttempt, the   *)
(* use cases that drive it, and QuestionBasedMasteryService.               *)
(*                                                                         *)
(* Timestamps are values of a logical clock `now` (datetime.now(UTC));     *)
(* None is the value 0.  Scores are exact rationals: a score is a pair     *)
(* <<num, den>> and every penalty is counted in fifths (0.2 = 1 fifth).    *)
(***************************************************************************)
EXTENDS Integers, Sequences, FiniteSets, TLC

\* ---------------------------------------------------------------- bounds
MaxSessions == 1        \* sessions a plan may accumulate in the model
MaxQuestions == 2       \* largest max_questions given to a session
NumQuestionIDs == 2     \* distinct question ids
MaxAttempts == 2        \* answer attempts stored in the whole plan
MaxPlanQuestions == 2   \* session questions held by the whole plan
MaxTime == 2            \* readings of the clock
MaxMQ == 3              \* questions in a list given to compute_mastery
MaxMAttempts == 7       \* attempts in a list given to compute_mastery
MaxBatchUnits == 3      \* knowledge units a focus policy selects
MaxBatchQuestions == 4  \* largest max_questions in the loop over the units
MaxRaceAttempts == 2    \* attempts stored before two executions overlap

None == 0
QuestionIDs == 1..NumQuestionIDs
KnowledgeUnitIDs == {1, 2}
Answers == {1}
Verdicts == {"correct", "incorrect"}
NoAssessment == "None"

VARIABLES
    now,            \* the clock read by datetime.now(UTC)
    completed_at,   \* LearningPlan.completed_at
    sessions,       \* LearningPlan.sessions
    question_repo,  \* QuestionRepository: saved question id -> knowledge unit
    mastery_level,  \* KnowledgeUnit.mastery_level of each unit of the plan
    outcome,        \* the last call: operation, exception raised, value returned
    mq,             \* the argument of compute_mastery
    mres,           \* the value compute_mastery returned for mq
    batch,          \* StartStudySession step 3: the loop over the selected units
    heap,           \* the LearningPlan objects in memory
    plans,          \* InMemoryLearningPlanRepository._plans[plan.id]: an object
    exec            \* the use-case executions in flight and their locals

vars == <<now, completed_at, sessions, question_repo, mastery_level, outcome, mq, mres,
          batch, heap, plans, exec>>
planVars == <<now, completed_at, sessions, question_repo, mastery_level, outcome>>
masteryVars == <<mq, mres>>
batchVars == <<batch>>
raceVars == <<heap, plans, exec>>
sideVars == <<mq, mres, batch, heap, plans, exec>>

\* ------------------------------------------------------- sequence helpers
RECURSIVE SumSeq(_)
SumSeq(s) == IF s = <<>> THEN 0 ELSE Head(s) + SumSeq(Tail(s))

\* ------------------------------------------------------- SessionQuestion
AnswerAttempt(user_answer, answered_at, assessment) ==
    [user_answer |-> user_answer, answered_at |-> answered_at,
     assessment |-> assessment]

SessionQuestion(question_id, knowledge_unit_id) ==
    [question_id |-> question_id, knowledge_unit_id |-> knowledge_unit_id,
     attempts |-> <<>>, last_answered_at |-> None]

\* a variant of submit_answer that stores the newest attempt first
submit_answer_prepends(sq, user_answer, t) ==
    [sq EXCEPT !.attempts = <<AnswerAttempt(user_answer, t, NoAssessment)>> \o @,
               !.last_answered_at = t]

\* a variant of submit_answer that overwrites an attempt still unassessed
submit_answer_replaces_unassessed(sq, user_answer, t) ==
    IF sq.attempts # <<>> /\ sq.attempts[Len(sq.attempts)].assessment = NoAssessment
    THEN [sq EXCEPT !.attempts[Len(sq.attempts)] =
                        AnswerAttempt(user_answer, t, NoAssessment),
                    !.last_answered_at = t]
    ELSE [sq EXCEPT !.attempts = Append(@, AnswerAttempt(user_answer, t, NoAssessment)),
                    !.last_answered_at = t]

\* answered_at and last_answered_at are two readings of the clock, taken here
\* at the same instant t
submit_answer(sq, user_answer, t) ==
    [sq EXCEPT !.attempts = Append(@, AnswerAttempt(user_answer, t, NoAssessment)),
               !.last_answered_at = t]

\* index of the attempt latest_unassessed_attempt returns, 0 for None
RECURSIVE ScanUnassessed(_, _)
ScanUnassessed(attempts, i) ==
    IF i = 0 THEN 0
    ELSE IF attempts[i].assessment = NoAssessment THEN i
    ELSE ScanUnassessed(attempts, i - 1)

\* a variant of latest_unassessed_attempt without the `assessment is None` test
latest_attempt(sq) == Len(sq.attempts)

latest_unassessed_attempt(sq) == ScanUnassessed(sq.attempts, Len(sq.attempts))

\* list.index: the first position holding a value equal to attempt, 0 if none
RECURSIVE IndexOf(_, _, _)
IndexOf(attempts, attempt, i) ==
    IF i > Len(attempts) THEN 0
    ELSE IF attempts[i] = attempt THEN i
    ELSE IndexOf(attempts, attempt, i + 1)

attach_assessment(sq, attempt, assessment) ==
    LET index == IndexOf(sq.attempts, attempt, 1)
    IN  [sq EXCEPT !.attempts[index] =
            AnswerAttempt(attempt.user_answer, attempt.answered_at, assessment)]

\* a variant of status that reads the last attempt only
status_of_last_attempt(sq) ==
    IF sq.attempts = <<>> THEN "pending"
    ELSE LET a == sq.attempts[Len(sq.attempts)].assessment
         IN  IF a = NoAssessment THEN "pending"
             ELSE IF a = "correct" THEN "correct" ELSE "incorrect"

RECURSIVE ScanAssessed(_, _)
ScanAssessed(attempts, i) ==
    IF i = 0 THEN "pending"
    ELSE IF attempts[i].assessment # NoAssessment
         THEN (IF attempts[i].assessment = "correct" THEN "correct" ELSE "incorrect")
    ELSE ScanAssessed(attempts, i - 1)

status(sq) ==
    IF sq.attempts = <<>> THEN "pending"
    ELSE ScanAssessed(sq.attempts, Len(sq.attempts))

\* ---------------------------------------------------------- StudySession
\* id, knowledge_units and started_at are written once and read by no
\* operation of the aggregate; a session is named by its position in the plan
StudySession(max_questions, questions) ==
    [max_questions |-> max_questions, questions |-> questions, ended_at |-> None]

question_ids(s) == {s.questions[i].question_id : i \in 1..Len(s.questions)}

\* a variant of can_ask_more_questions that forgets ended_at
can_ask_more_questions_ignores_ended(s) ==
    Len(s.questions) < s.max_questions

\* a variant of can_ask_more_questions with the comparison off by one
can_ask_more_questions_off_by_one(s) ==
    Len(s.questions) <= s.max_questions /\ s.ended_at = None

can_ask_more_questions(s) ==
    Len(s.questions) < s.max_questions /\ s.ended_at = None

\* a variant of is_completed with any() in place of all()
is_completed_any(s) ==
    IF s.ended_at # None THEN TRUE
    ELSE \E i \in 1..Len(s.questions) : status(s.questions[i]) # "pending"

\* a variant of is_completed without the len(questions) > 0 test
is_completed_no_len_check(s) ==
    IF s.ended_at # None THEN TRUE
    ELSE \A i \in 1..Len(s.questions) : status(s.questions[i]) # "pending"

is_completed(s) ==
    IF s.ended_at # None THEN TRUE
    ELSE IF Len(s.questions) > 0
              /\ \A i \in 1..Len(s.questions) : status(s.questions[i]) # "pending"
         THEN TRUE
    ELSE FALSE

\* ---------------------------------------------------------- LearningPlan
plan_is_completed == completed_at # None

\* the last call: its operation, the exception it raised ("ok" if none) and
\* the value it returned
Outcome(op, err, ret) == [op |-> op, err |-> err, ret |-> ret]

TotalQuestions == SumSeq([i \in 1..Len(sessions) |-> Len(sessions[i].questions)])

TotalAttempts ==
    SumSeq([i \in 1..Len(sessions) |->
        SumSeq([j \in 1..Len(sessions[i].questions) |->
            Len(sessions[i].questions[j].attempts)])])

\* the two executions of use cases that may overlap
Executions == {1, 2}

\* no loop of StartStudySession under way
NoBatch == [knowledge_units |-> <<>>, max_questions |-> 0, i |-> 0, calls |-> <<>>]

\* an execution that has not begun: no plan loaded, no attempt read.  plan is
\* the object get_by_id returned, attempt and pos the attempt
\* latest_unassessed_attempt returned and its position; attached and saved
\* number the calls of attach_assessment and save in the order they are made,
\* and shared_read / shared_load tell that, at that call, another execution
\* had read its attempt / loaded its plan and not yet attached / saved
Idle ==
    [pc |-> "idle", op |-> "none", plan |-> 0, attempt |-> <<>>, pos |-> 0,
     verdict |-> "none", err |-> "ok", attached |-> 0, saved |-> 0,
     shared_read |-> FALSE, shared_load |-> FALSE]

\* a created plan with no session yet
InitPlan ==
    /\ now = 1
    /\ completed_at = None
    /\ sessions = <<>>
    /\ question_repo = [q \in QuestionIDs |-> None]
    /\ mastery_level = [k \in KnowledgeUnitIDs |-> [num |-> 0, den |-> 1]]
    /\ outcome = Outcome("init", "ok", 0)

Init ==
    /\ InitPlan
    /\ mq = <<>>
    /\ mres = [done |-> FALSE, num |-> 0, den |-> 1]
    /\ batch = NoBatch
    /\ heap = <<>>
    /\ plans = 0
    /\ exec = [p \in Executions |-> Idle]

\* the clock advances between two readings
Tick ==
    /\ now < MaxTime
    /\ now' = now + 1
    /\ UNCHANGED <<completed_at, sessions, question_repo, outcome, mastery_level, sideVars>>

\* a variant of start_session without the completion gate
start_session_no_gate(max_questions) ==
    /\ Len(sessions) < MaxSessions
    /\ sessions' = Append(sessions, StudySession(max_questions, <<>>))
    /\ outcome' = Outcome("start_session", "ok", Len(sessions) + 1)
    /\ UNCHANGED <<now, completed_at, question_repo, mastery_level, sideVars>>

start_session(max_questions) ==
    /\ IF plan_is_completed
       THEN /\ outcome' = Outcome("start_session", "LearningPlanIsAlreadyCompleted", 0)
            /\ UNCHANGED sessions
       ELSE /\ Len(sessions) < MaxSessions
            /\ sessions' = Append(sessions,
                   StudySession(max_questions, <<>>))
            /\ outcome' = Outcome("start_session", "ok", Len(sessions) + 1)
    /\ UNCHANGED <<now, completed_at, question_repo, mastery_level, sideVars>>

\* a variant of complete without the is_completed test
complete_overwrites ==
    /\ completed_at' = now
    /\ outcome' = Outcome("complete", "ok", 0)
    /\ UNCHANGED <<now, sessions, question_repo, mastery_level, sideVars>>

complete ==
    /\ completed_at' = IF ~plan_is_completed THEN now ELSE completed_at
    /\ outcome' = Outcome("complete", "ok", 0)
    /\ UNCHANGED <<now, sessions, question_repo, mastery_level, sideVars>>

\* a variant of register_question without the `in self.questions` test
register_question_overwrites(s, question_id) ==
    /\ s \in 1..Len(sessions)
    /\ IF ~can_ask_more_questions(sessions[s])
       THEN /\ outcome' = Outcome("register_question", "StudySessionFull", 0)
            /\ UNCHANGED sessions
       ELSE IF question_id \in question_ids(sessions[s])
       THEN /\ sessions' = [sessions EXCEPT
                   ![s].questions[CHOOSE i \in 1..Len(sessions[s].questions) :
                        sessions[s].questions[i].question_id = question_id] =
                            SessionQuestion(question_id, None)]
            /\ outcome' = Outcome("register_question", "ok", 0)
       ELSE /\ TotalQuestions < MaxPlanQuestions
            /\ sessions' = [sessions EXCEPT ![s].questions =
                                Append(@, SessionQuestion(question_id, None))]
            /\ outcome' = Outcome("register_question", "ok", 0)
    /\ UNCHANGED <<now, completed_at, question_repo, mastery_level, sideVars>>

\* StudySession.register_question on the s-th session of the plan
register_question(s, question_id) ==
    /\ s \in 1..Len(sessions)
    /\ IF ~can_ask_more_questions(sessions[s])
       THEN /\ outcome' = Outcome("register_question", "StudySessionFull", 0)
            /\ UNCHANGED sessions
       ELSE IF question_id \in question_ids(sessions[s])
       THEN /\ outcome' = Outcome("register_question", "ok", 0)
            /\ UNCHANGED sessions
       ELSE /\ TotalQuestions < MaxPlanQuestions
            /\ sessions' = [sessions EXCEPT ![s].questions =
                                Append(@, SessionQuestion(question_id, None))]
            /\ outcome' = Outcome("register_question", "ok", 0)
    /\ UNCHANGED <<now, completed_at, question_repo, mastery_level, sideVars>>

end_early(s) ==
    /\ s \in 1..Len(sessions)
    /\ sessions' = [sessions EXCEPT ![s].ended_at = IF @ = None THEN now ELSE @]
    /\ outcome' = Outcome("end_early", "ok", 0)
    /\ UNCHANGED <<now, completed_at, question_repo, mastery_level, sideVars>>

\* ------------------------------------------------------------- use cases
PlanIDs == {"plan", "missing"}

\* learning_plan_repository.get_by_id: the one stored plan, or None
get_by_id(learning_plan_id) == learning_plan_id = "plan"

\* position of the session with the given id in plan.sessions, 0 if none
find_session(study_session_id) ==
    IF study_session_id \in 1..Len(sessions) THEN study_session_id ELSE 0

\* position of question_id in the session's questions, 0 if none
RECURSIVE FindQuestion(_, _, _)
FindQuestion(questions, question_id, i) ==
    IF i > Len(questions) THEN 0
    ELSE IF questions[i].question_id = question_id THEN i
    ELSE FindQuestion(questions, question_id, i + 1)

questions_get(s, question_id) == FindQuestion(sessions[s].questions, question_id, 1)

\* ids no question carries yet (uuid4 never repeats an id)
FreshIDs ==
    {q \in QuestionIDs :
        /\ question_repo[q] = None
        /\ \A i \in 1..Len(sessions) : q \notin question_ids(sessions[i])}

RECURSIVE SortedSeq(_)
SortedSeq(S) ==
    IF S = {} THEN <<>>
    ELSE LET m == CHOOSE x \in S : \A y \in S : x <= y
         IN  <<m>> \o SortedSeq(S \ {m})

\* the sequences of distinct knowledge units a focus policy may select
Selections ==
    {sel \in UNION {[1..n -> KnowledgeUnitIDs] : n \in 0..Cardinality(KnowledgeUnitIDs)} :
        \A i, j \in 1..Len(sel) : i # j => sel[i] # sel[j]}

\* a variant of batch_count that rounds every share up
batch_count_rounds_up(max_questions, n, i) ==
    (max_questions + n - 1) \div n

\* a variant of batch_count that gives the remainder to the last units
batch_count_remainder_last(max_questions, n, i) ==
    (max_questions \div n) + (IF n - i < max_questions % n THEN 1 ELSE 0)

\* the number of questions asked of the generator for the i-th selected unit
\* (i counted from 1 here, from 0 in the source)
batch_count(max_questions, n, i) ==
    (max_questions \div n) + (IF i - 1 < max_questions % n THEN 1 ELSE 0)

\* the knowledge unit of the p-th generated question, batches taken in order
RECURSIVE BatchOf(_, _, _)
BatchOf(got, p, i) ==
    IF p <= got[i] THEN i ELSE BatchOf(got, p - got[i], i + 1)

StartStudySession(learning_plan_id, max_questions) ==
    /\ IF ~get_by_id(learning_plan_id)
       THEN /\ outcome' = Outcome("StartStudySession", "ValueError", 0)
            /\ UNCHANGED <<sessions, question_repo>>
       ELSE \E knowledge_units \in Selections :
            IF knowledge_units = <<>>
            THEN /\ outcome' = Outcome("StartStudySession", "ValueError", 0)
                 /\ UNCHANGED <<sessions, question_repo>>
            ELSE LET n == Len(knowledge_units) IN
                 \E got \in [1..n -> 0..max_questions] :
                    LET total == SumSeq(got)
                        ids == SortedSeq(FreshIDs)
                        questions == [p \in 1..total |->
                            SessionQuestion(ids[p], knowledge_units[BatchOf(got, p, 1)])]
                    IN  /\ \A i \in 1..n : got[i] <= batch_count(max_questions, n, i)
                        /\ total <= Len(ids)
                        /\ TotalQuestions + total <= MaxPlanQuestions
                        /\ Len(sessions) < MaxSessions
                        /\ question_repo' = [q \in QuestionIDs |->
                              IF \E p \in 1..total : ids[p] = q
                              THEN knowledge_units[BatchOf(got,
                                       CHOOSE p \in 1..total : ids[p] = q, 1)]
                              ELSE question_repo[q]]
                        /\ sessions' = Append(sessions,
                              StudySession(max_questions, questions))
                        /\ outcome' = Outcome("StartStudySession", "ok", Len(sessions) + 1)
    /\ UNCHANGED <<now, completed_at, mastery_level, sideVars>>

SubmitAnswer(learning_plan_id, study_session_id, question_id, user_answer) ==
    /\ IF ~get_by_id(learning_plan_id)
       THEN /\ outcome' = Outcome("SubmitAnswer", "LearningPlanNotFound", 0)
            /\ UNCHANGED sessions
       ELSE LET s == find_session(study_session_id) IN
            IF s = 0
            THEN /\ outcome' = Outcome("SubmitAnswer", "StudySessionNotFound", 0)
                 /\ UNCHANGED sessions
            ELSE LET q == questions_get(s, question_id) IN
                 IF q = 0
                 THEN /\ outcome' = Outcome("SubmitAnswer", "QuestionNotInStudySession", 0)
                      /\ UNCHANGED sessions
                 ELSE /\ TotalAttempts < MaxAttempts
                      /\ sessions' = [sessions EXCEPT ![s].questions[q] =
                                         submit_answer(@, user_answer, now)]
                      /\ outcome' = Outcome("SubmitAnswer", "ok", 0)
    /\ UNCHANGED <<now, completed_at, question_repo, mastery_level, sideVars>>

\* a variant of AssessQuestionOutcome that grades the attempt as incorrect before
\* it loads the question
AssessQuestionOutcome_marks_before_load(learning_plan_id, study_session_id, question_id) ==
    /\ IF ~get_by_id(learning_plan_id)
       THEN /\ outcome' = Outcome("AssessQuestionOutcome", "LearningPlanNotFound", 0)
            /\ UNCHANGED sessions
       ELSE LET s == find_session(study_session_id) IN
            IF s = 0
            THEN /\ outcome' = Outcome("AssessQuestionOutcome", "StudySessionNotFound", 0)
                 /\ UNCHANGED sessions
            ELSE LET q == questions_get(s, question_id) IN
                 IF q = 0
                 THEN /\ outcome' = Outcome("AssessQuestionOutcome",
                                            "QuestionNotInStudySession", 0)
                      /\ UNCHANGED sessions
                 ELSE LET sq == sessions[s].questions[q]
                          a == latest_unassessed_attempt(sq)
                      IN  IF a = 0
                          THEN /\ outcome' = Outcome("AssessQuestionOutcome",
                                                     "NoUnassessedAnswerAttempt", 0)
                               /\ UNCHANGED sessions
                          ELSE IF question_repo[question_id] = None
                          THEN /\ sessions' = [sessions EXCEPT ![s].questions[q] =
                                      attach_assessment(@, sq.attempts[a], "incorrect")]
                               /\ outcome' = Outcome("AssessQuestionOutcome",
                                                     "QuestionNotFound", 0)
                          ELSE \E assessment \in Verdicts :
                               /\ sessions' = [sessions EXCEPT ![s].questions[q] =
                                      attach_assessment(@, sq.attempts[a], assessment)]
                               /\ outcome' = Outcome("AssessQuestionOutcome", "ok", 0)
    /\ UNCHANGED <<now, completed_at, question_repo, mastery_level, sideVars>>

AssessQuestionOutcome(learning_plan_id, study_session_id, question_id) ==
    /\ IF ~get_by_id(learning_plan_id)
       THEN /\ outcome' = Outcome("AssessQuestionOutcome", "LearningPlanNotFound", 0)
            /\ UNCHANGED sessions
       ELSE LET s == find_session(study_session_id) IN
            IF s = 0
            THEN /\ outcome' = Outcome("AssessQuestionOutcome", "StudySessionNotFound", 0)
                 /\ UNCHANGED sessions
            ELSE LET q == questions_get(s, question_id) IN
                 IF q = 0
                 THEN /\ outcome' = Outcome("AssessQuestionOutcome",
                                            "QuestionNotInStudySession", 0)
                      /\ UNCHANGED sessions
                 ELSE LET sq == sessions[s].questions[q]
                          a == latest_unassessed_attempt(sq)
                      IN  IF a = 0
                          THEN /\ outcome' = Outcome("AssessQuestionOutcome",
                                                     "NoUnassessedAnswerAttempt", 0)
                               /\ UNCHANGED sessions
                          ELSE IF question_repo[question_id] = None
                          THEN /\ outcome' = Outcome("AssessQuestionOutcome",
                                                     "QuestionNotFound", 0)
                               /\ UNCHANGED sessions
                          ELSE \E assessment \in Verdicts :
                               /\ sessions' = [sessions EXCEPT ![s].questions[q] =
                                      attach_assessment(@, sq.attempts[a], assessment)]
                               /\ outcome' = Outcome("AssessQuestionOutcome", "ok", 0)
    /\ UNCHANGED <<now, completed_at, question_repo, mastery_level, sideVars>>

\* ------------------------------------------- QuestionBasedMasteryService
\* 0.2, the penalty of one more assessed attempt, is one part in Scale
Scale == 5

Max(a, b) == IF a >= b THEN a ELSE b

IsAssessed(a) == a.assessment # NoAssessment

assessed_attempts(sq) == SelectSeq(sq.attempts, IsAssessed)

\* a variant of penalty without the floor at 0.0
penalty_no_floor(attempts_count) == Scale - (attempts_count - 1)

\* max(0.0, 1.0 - 0.2 * (attempts_count - 1)), in parts of Scale
penalty(attempts_count) == Max(0, Scale - (attempts_count - 1))

\* a variant of score_added that counts every attempt, assessed or not
score_added_all_attempts(sq) ==
    LET assessed == assessed_attempts(sq) IN
    IF assessed = <<>> THEN 0
    ELSE IF assessed[Len(assessed)].assessment = "correct"
         THEN penalty(Len(sq.attempts))
    ELSE 0

\* a variant of score_added that reads the first assessed attempt
score_added_first_assessed(sq) ==
    LET assessed == assessed_attempts(sq) IN
    IF assessed = <<>> THEN 0
    ELSE IF assessed[1].assessment = "correct"
         THEN penalty(Len(assessed))
    ELSE 0

\* what one pass of the loop adds to total_score, in parts of Scale
score_added(sq) ==
    LET assessed == assessed_attempts(sq) IN
    IF assessed = <<>> THEN 0
    ELSE IF assessed[Len(assessed)].assessment = "correct"
         THEN penalty(Len(assessed))
    ELSE 0

\* a variant of max_added that counts a question before the `continue`
max_added_every_question(sq) == 1

\* a variant of max_added that counts a question only when it is correct
max_added_only_correct(sq) ==
    LET assessed == assessed_attempts(sq) IN
    IF assessed = <<>> THEN 0
    ELSE IF assessed[Len(assessed)].assessment = "correct" THEN 1 ELSE 0

\* what one pass of the loop adds to max_score
max_added(sq) == IF assessed_attempts(sq) = <<>> THEN 0 ELSE 1

total_score(session_questions) ==
    SumSeq([i \in 1..Len(session_questions) |-> score_added(session_questions[i])])

max_score(session_questions) ==
    SumSeq([i \in 1..Len(session_questions) |-> max_added(session_questions[i])])

\* the returned float as the fraction num / den
compute_mastery(session_questions) ==
    IF session_questions = <<>> THEN [num |-> 0, den |-> 1]
    ELSE LET total == total_score(session_questions)
             maxs == max_score(session_questions)
         IN  IF maxs = 0 THEN [num |-> 0, den |-> 1]
             ELSE IF total > Scale * maxs THEN [num |-> 1, den |-> 1]
             ELSE [num |-> total, den |-> Scale * maxs]

\* ------------------------------------------- use cases reading the scores
RECURSIVE Gcd(_, _)
Gcd(a, b) == IF b = 0 THEN a ELSE Gcd(b, a % b)

\* the float a fraction denotes: equal fractions are one value
AsValue(f) ==
    LET g == Gcd(f.num, f.den) IN [num |-> f.num \div g, den |-> f.den \div g]

\* a knowledge unit id no unit of the plan carries
MissingKU == Cardinality(KnowledgeUnitIDs) + 1

\* all_questions order: session order, then registration order
RECURSIVE Flatten(_)
Flatten(ss) == IF ss = <<>> THEN <<>> ELSE Head(ss).questions \o Flatten(Tail(ss))

\* a variant of collected_questions without the knowledge_unit_id test
collected_questions_all_units(knowledge_unit_id) ==
    SelectSeq(Flatten(sessions), LAMBDA sq : status(sq) # "pending")

\* the SessionQuestions UpdateKnowledgeUnitMastery hands to the mastery service
collected_questions(knowledge_unit_id) ==
    SelectSeq(Flatten(sessions),
              LAMBDA sq : sq.knowledge_unit_id = knowledge_unit_id
                          /\ status(sq) # "pending")

\* a variant of update_mastery that writes the value to every unit
update_mastery_all_units(knowledge_unit_id, session_questions) ==
    [k \in KnowledgeUnitIDs |-> AsValue(compute_mastery(session_questions))]

\* QuestionBasedMasteryService.update_mastery
update_mastery(knowledge_unit_id, session_questions) ==
    [mastery_level EXCEPT ![knowledge_unit_id] =
        AsValue(compute_mastery(session_questions))]

UpdateKnowledgeUnitMastery(learning_plan_id, knowledge_unit_id) ==
    /\ IF ~get_by_id(learning_plan_id)
       THEN /\ outcome' = Outcome("UpdateKnowledgeUnitMastery", "LearningPlanNotFound", 0)
            /\ UNCHANGED mastery_level
       ELSE IF knowledge_unit_id \notin KnowledgeUnitIDs
       THEN /\ outcome' = Outcome("UpdateKnowledgeUnitMastery", "KUNotInLearningPlan", 0)
            /\ UNCHANGED mastery_level
       ELSE /\ mastery_level' =
                  update_mastery(knowledge_unit_id, collected_questions(knowledge_unit_id))
            /\ outcome' = Outcome("UpdateKnowledgeUnitMastery", "ok", knowledge_unit_id)
    /\ UNCHANGED <<now, completed_at, sessions, question_repo, sideVars>>

\* GetStudySessionViewUseCase.execute: reads the session, changes nothing
GetStudySessionView(learning_plan_id, study_session_id) ==
    /\ IF ~get_by_id(learning_plan_id)
       THEN outcome' = Outcome("GetStudySessionView", "ValueError", 0)
       ELSE IF find_session(study_session_id) = 0
       THEN outcome' = Outcome("GetStudySessionView", "ValueError", 0)
       ELSE outcome' = Outcome("GetStudySessionView", "ok", study_session_id)
    /\ UNCHANGED <<now, completed_at, sessions, question_repo, mastery_level, sideVars>>

\* the attempts a caller may hand to SessionQuestion.attach_assessment
Attempts ==
    {AnswerAttempt(a, t, v) :
        a \in Answers, t \in 1..MaxTime, v \in {NoAssessment} \cup Verdicts}

\* a variant of attach_assessment_call that appends an attempt it does not find
attach_assessment_call_appends(s, question_id, attempt, assessment) ==
    /\ s \in 1..Len(sessions)
    /\ questions_get(s, question_id) # 0
    /\ LET q == questions_get(s, question_id)
           sq == sessions[s].questions[q]
       IN  IF IndexOf(sq.attempts, attempt, 1) = 0
           THEN /\ sessions' = [sessions EXCEPT ![s].questions[q].attempts =
                                   Append(@, [attempt EXCEPT !.assessment = assessment])]
                /\ outcome' = Outcome("attach_assessment", "ok", 0)
           ELSE /\ sessions' = [sessions EXCEPT ![s].questions[q] =
                                   attach_assessment(sq, attempt, assessment)]
                /\ outcome' = Outcome("attach_assessment", "ok", 0)
    /\ UNCHANGED <<now, completed_at, question_repo, mastery_level, sideVars>>

\* SessionQuestion.attach_assessment called on the question question_id of the
\* s-th session; list.index raises ValueError for an attempt not in the list
attach_assessment_call(s, question_id, attempt, assessment) ==
    /\ s \in 1..Len(sessions)
    /\ questions_get(s, question_id) # 0
    /\ LET q == questions_get(s, question_id)
           sq == sessions[s].questions[q]
       IN  IF IndexOf(sq.attempts, attempt, 1) = 0
           THEN /\ outcome' = Outcome("attach_assessment", "ValueError", 0)
                /\ UNCHANGED sessions
           ELSE /\ sessions' = [sessions EXCEPT ![s].questions[q] =
                                   attach_assessment(sq, attempt, assessment)]
                /\ outcome' = Outcome("attach_assessment", "ok", 0)
    /\ UNCHANGED <<now, completed_at, question_repo, mastery_level, sideVars>>

Next ==
    \/ Tick
    \/ \E m \in 1..MaxQuestions : start_session(m)
    \/ complete
    \/ \E s \in 1..MaxSessions, q \in QuestionIDs : register_question(s, q)
    \/ \E s \in 1..MaxSessions : end_early(s)
    \/ \E p \in PlanIDs, m \in 1..MaxQuestions : StartStudySession(p, m)
    \/ \E p \in PlanIDs, s \in 1..MaxSessions + 1, q \in QuestionIDs, a \in Answers :
          SubmitAnswer(p, s, q, a)
    \/ \E p \in PlanIDs, s \in 1..MaxSessions + 1, q \in QuestionIDs :
          AssessQuestionOutcome(p, s, q)
    \/ \E p \in PlanIDs, k \in KnowledgeUnitIDs \cup {MissingKU} :
          UpdateKnowledgeUnitMastery(p, k)
    \/ \E p \in PlanIDs, s \in 1..MaxSessions + 1 : GetStudySessionView(p, s)
    \/ \E s \in 1..MaxSessions, q \in QuestionIDs, a \in Attempts, v \in Verdicts :
          attach_assessment_call(s, q, a, v)

Spec == Init /\ [][Next]_vars

\* --- the lists compute_mastery is applied to, built one element at a time
NotComputed == [done |-> FALSE, num |-> 0, den |-> 1]

MTotalAttempts == SumSeq([i \in 1..Len(mq) |-> Len(mq[i].attempts)])

\* one more SessionQuestion at the end of the list
MAddQuestion ==
    /\ Len(mq) < MaxMQ
    /\ mq' = Append(mq, SessionQuestion(Len(mq) + 1, None))
    /\ mres' = NotComputed
    /\ UNCHANGED <<planVars, batchVars, raceVars>>

\* one more attempt of the last SessionQuestion, assessed or not
MAddAttempt(assessment) ==
    /\ mq # <<>>
    /\ MTotalAttempts < MaxMAttempts
    /\ mq' = [mq EXCEPT ![Len(mq)].attempts =
                 Append(@, AnswerAttempt(1, 1, assessment))]
    /\ mres' = NotComputed
    /\ UNCHANGED <<planVars, batchVars, raceVars>>

MCompute ==
    /\ ~mres.done
    /\ mres' = [done |-> TRUE, num |-> compute_mastery(mq).num,
                den |-> compute_mastery(mq).den]
    /\ UNCHANGED <<mq, planVars, batchVars, raceVars>>

NextMastery ==
    \/ MAddQuestion
    \/ \E a \in {NoAssessment} \cup Verdicts : MAddAttempt(a)
    \/ MCompute

SpecMastery == Init /\ [][NextMastery]_vars

\* ------------------------- StartStudySession, step 3: the generator calls
BatchUnits == 1..MaxBatchUnits

\* the non-empty sequences of distinct units select_knowledge_units may return
BatchSelections ==
    {sel \in UNION {[1..n -> BatchUnits] : n \in 1..MaxBatchUnits} :
        \A i, j \in 1..Len(sel) : i # j => sel[i] # sel[j]}

InitBatch ==
    /\ InitPlan
    /\ mq = <<>>
    /\ mres = [done |-> FALSE, num |-> 0, den |-> 1]
    /\ batch \in {[knowledge_units |-> sel, max_questions |-> m, i |-> 0,
                   calls |-> <<>>] :
                        sel \in BatchSelections, m \in 1..MaxBatchQuestions}
    /\ heap = <<>>
    /\ plans = 0
    /\ exec = [p \in Executions |-> Idle]

\* one pass of `for i, ku in enumerate(knowledge_units)`: the generator is
\* called, with (ku, count), only if count > 0
BatchStep ==
    /\ batch.i < Len(batch.knowledge_units)
    /\ LET i == batch.i + 1
           count == batch_count(batch.max_questions, Len(batch.knowledge_units), i)
       IN  batch' = [batch EXCEPT
                !.i = i,
                !.calls = IF count > 0
                          THEN Append(@, [ku |-> batch.knowledge_units[i],
                                          count |-> count])
                          ELSE @]
    /\ UNCHANGED <<planVars, masteryVars, raceVars>>

NextBatch == BatchStep

SpecBatch == InitBatch /\ [][NextBatch]_vars

\* ------------------------------------ two executions on one plan object
\* the plan is followed through the one session question both executions
\* work on; a heap object is that question as the plan object holds it
StoredQuestions ==
    {[question_id |-> 1, knowledge_unit_id |-> 1, attempts |-> a,
      last_answered_at |-> IF a = <<>> THEN None ELSE 1] :
        a \in UNION {[1..n -> {AnswerAttempt(1, 1, v) :
                                  v \in {NoAssessment} \cup Verdicts}] :
                        n \in 0..MaxRaceAttempts}}

InitRace ==
    /\ InitPlan
    /\ mq = <<>>
    /\ mres = [done |-> FALSE, num |-> 0, den |-> 1]
    /\ batch = NoBatch
    /\ heap \in {<<sq>> : sq \in StoredQuestions}
    /\ plans = 1
    /\ exec = [p \in Executions |-> Idle]

\* a variant of get_by_id that hands out a copy of the stored plan
repo_get_by_id_copies(p) ==
    [plan |-> Len(heap) + 1, heap |-> Append(heap, heap[plans])]

\* self._plans.get(plan_id): the stored object itself
repo_get_by_id(p) == [plan |-> plans, heap |-> heap]

\* the answer execution p submits; distinct values tell the attempts apart
answer_of(p) == 10 + p

HasSaved(q) == exec[q].saved > 0
HasAttached(q) == exec[q].attached > 0

\* step 1 of SubmitAnswer / AssessQuestionOutcome: load the aggregate
RaceLoad(p, op) ==
    /\ exec[p].pc = "idle"
    /\ heap' = repo_get_by_id(p).heap
    /\ exec' = [exec EXCEPT ![p] =
            [@ EXCEPT !.pc = IF op = "SubmitAnswer" THEN "submit" ELSE "read",
                      !.op = op,
                      !.plan = repo_get_by_id(p).plan]]
    /\ UNCHANGED <<plans, planVars, masteryVars, batchVars>>

\* SubmitAnswer: session_question.submit_answer(user_answer)
RaceSubmit(p) ==
    /\ exec[p].pc = "submit"
    /\ heap' = [heap EXCEPT ![exec[p].plan] = submit_answer(@, answer_of(p), now)]
    /\ exec' = [exec EXCEPT ![p].pc = "save"]
    /\ UNCHANGED <<plans, planVars, masteryVars, batchVars>>

\* AssessQuestionOutcome: latest_unassessed_attempt(), then the evaluator
RaceRead(p) ==
    /\ exec[p].pc = "read"
    /\ LET sq == heap[exec[p].plan]
           a == latest_unassessed_attempt(sq)
       IN  IF a = 0
           THEN exec' = [exec EXCEPT ![p].pc = "done",
                                     ![p].err = "NoUnassessedAnswerAttempt"]
           ELSE \E assessment \in Verdicts :
                exec' = [exec EXCEPT ![p].pc = "attach",
                                     ![p].attempt = <<sq.attempts[a]>>,
                                     ![p].pos = a,
                                     ![p].verdict = assessment]
    /\ UNCHANGED <<heap, plans, planVars, masteryVars, batchVars>>

\* AssessQuestionOutcome: session_question.attach_assessment(attempt, assessment)
RaceAttach(p) ==
    /\ exec[p].pc = "attach"
    /\ LET sq == heap[exec[p].plan] IN
       IF IndexOf(sq.attempts, exec[p].attempt[1], 1) = 0
       THEN /\ exec' = [exec EXCEPT ![p].pc = "done", ![p].err = "ValueError"]
            /\ UNCHANGED heap
       ELSE /\ heap' = [heap EXCEPT ![exec[p].plan] =
                           attach_assessment(sq, exec[p].attempt[1], exec[p].verdict)]
            /\ exec' = [exec EXCEPT
                    ![p].pc = "save",
                    ![p].attached =
                        1 + Cardinality({q \in Executions : HasAttached(q)}),
                    ![p].shared_read =
                        \E q \in Executions \ {p} : exec[q].pc = "attach"]
    /\ UNCHANGED <<plans, planVars, masteryVars, batchVars>>

\* the last step of both: learning_plan_repository.save(learning_plan)
RaceSave(p) ==
    /\ exec[p].pc = "save"
    /\ plans' = exec[p].plan
    /\ exec' = [exec EXCEPT
            ![p].pc = "done",
            ![p].saved = 1 + Cardinality({q \in Executions : HasSaved(q)}),
            ![p].shared_load =
                \E q \in Executions \ {p} :
                    exec[q].pc \in {"submit", "read", "attach", "save"}]
    /\ UNCHANGED <<heap, planVars, masteryVars, batchVars>>

NextRace ==
    \/ \E p \in Executions, op \in {"SubmitAnswer", "AssessQuestionOutcome"} :
          RaceLoad(p, op)
    \/ \E p \in Executions : RaceSubmit(p)
    \/ \E p \in Executions : RaceRead(p)
    \/ \E p \in Executions : RaceAttach(p)
    \/ \E p \in Executions : RaceSave(p)

SpecRace == InitRace /\ [][NextRace]_vars

\* ===================================================== properties (Spec)
SessionIdx == 1..Len(sessions)
QuestionIdx(s) == 1..Len(sessions[s].questions)

\* positions of the attempts of sq that carry an assessment
AssessedPositions(sq) ==
    {i \in 1..Len(sq.attempts) : sq.attempts[i].assessment # NoAssessment}

LastPosition(S) == CHOOSE i \in S : \A j \in S : j <= i

\* C1: in every reachable state every session holds at most max_questions
\* questions, and a register_question call for an id the session does not
\* hold, made when the session holds max_questions questions, raises
\* StudySessionFull.
CapacityHolds ==
    \A s \in SessionIdx : Len(sessions[s].questions) <= sessions[s].max_questions

RegisterNewAtCapacityRaises ==
    \A s \in 1..MaxSessions, q \in QuestionIDs :
        (/\ s \in SessionIdx
         /\ Len(sessions[s].questions) = sessions[s].max_questions
         /\ q \notin question_ids(sessions[s])
         /\ register_question(s, q))
        => (outcome'.err = "StudySessionFull" /\ sessions' = sessions)

C1_Capacity == []CapacityHolds /\ [][RegisterNewAtCapacityRaises]_vars

\* a register_question call has just been refused by a session that is at
\* capacity and not ended
C1_Witness ==
    /\ outcome.err = "StudySessionFull"
    /\ \E s \in SessionIdx :
          /\ Len(sessions[s].questions) = sessions[s].max_questions
          /\ sessions[s].ended_at = None

\* C2: once completed_at is set, no step adds a session to the plan.
C2_NoSessionAfterComplete ==
    [][completed_at # None => Len(sessions') = Len(sessions)]_vars

\* C3: start_session(max_questions) on a completed plan raises
\* LearningPlanIsAlreadyCompleted and leaves sessions unchanged; on a plan
\* that is not completed it appends exactly one session with no questions,
\* the given max_questions and ended_at unset, and returns that session.
StartSessionEffect ==
    \A m \in 1..MaxQuestions :
        start_session(m) =>
            IF completed_at # None
            THEN /\ outcome'.err = "LearningPlanIsAlreadyCompleted"
                 /\ sessions' = sessions
            ELSE /\ outcome'.err = "ok"
                 /\ Len(sessions') = Len(sessions) + 1
                 /\ SubSeq(sessions', 1, Len(sessions)) = sessions
                 /\ outcome'.ret = Len(sessions')
                 /\ sessions'[outcome'.ret].questions = <<>>
                 /\ sessions'[outcome'.ret].max_questions = m
                 /\ sessions'[outcome'.ret].ended_at = None

C3_StartSession == [][StartSessionEffect]_vars

\* start_session has just been refused on a completed plan that holds a
\* session start_session appended earlier
C3_Witness ==
    /\ outcome.err = "LearningPlanIsAlreadyCompleted"
    /\ completed_at # None
    /\ Len(sessions) = 1
    /\ sessions[1].questions = <<>>
    /\ sessions[1].max_questions = MaxQuestions

\* C4: status is PENDING exactly when no stored attempt carries an
\* assessment; otherwise it is the verdict of the assessed attempt latest in
\* position, whatever unassessed attempts follow it.
C4_Status ==
    \A s \in SessionIdx : \A q \in QuestionIdx(s) :
        LET sq == sessions[s].questions[q]
            A == AssessedPositions(sq)
        IN  /\ (status(sq) = "pending") <=> (A = {})
            /\ A # {} =>
                 status(sq) = (IF sq.attempts[LastPosition(A)].assessment = "correct"
                               THEN "correct" ELSE "incorrect")

\* a question whose first attempt is assessed and whose newer attempt is not
C4_Witness ==
    \E s \in SessionIdx : \E q \in QuestionIdx(s) :
        LET sq == sessions[s].questions[q]
        IN  /\ Len(sq.attempts) = 2
            /\ sq.attempts[1].assessment # NoAssessment
            /\ sq.attempts[2].assessment = NoAssessment

\* C9: is_completed() is true iff ended_at is set, or the session holds at
\* least one question and none of its questions is PENDING; an empty session
\* that was not ended is not completed, nor is one with a PENDING question.
C9_IsCompleted ==
    \A s \in SessionIdx :
        LET ses == sessions[s]
            pending == {q \in QuestionIdx(s) : AssessedPositions(ses.questions[q]) = {}}
        IN  /\ is_completed(ses) <=>
                  (\/ ses.ended_at # None
                   \/ (Len(ses.questions) >= 1 /\ pending = {}))
            /\ (Len(ses.questions) = 0 /\ ses.ended_at = None) => ~is_completed(ses)
            /\ (pending # {} /\ ses.ended_at = None) => ~is_completed(ses)

\* a session that was not ended and whose two questions both left PENDING
C9_Witness ==
    \E s \in SessionIdx :
        /\ sessions[s].ended_at = None
        /\ Len(sessions[s].questions) = 2
        /\ \A q \in QuestionIdx(s) : status(sessions[s].questions[q]) # "pending"
        /\ is_completed(sessions[s])

\* C10: register_question with an id the session already holds returns
\* normally and changes nothing, in every state of the session.
RegisterPresentIsNoOp ==
    \A s \in 1..MaxSessions, q \in QuestionIDs :
        (/\ s \in SessionIdx
         /\ q \in question_ids(sessions[s])
         /\ register_question(s, q))
        => (outcome'.err = "ok" /\ sessions' = sessions)

C10_RegisterPresentIsNoOp == [][RegisterPresentIsNoOp]_vars

\* ============================================== properties (SpecMastery)
MIdx == 1..Len(mq)

Answered == {i \in MIdx : AssessedPositions(mq[i]) # {}}

LatestVerdict(sq) == sq.attempts[LastPosition(AssessedPositions(sq))].assessment

\* 1 - 0.2 * (N - 1) floored at 0, in fifths, for N assessed attempts
ExpectedFifths(N) ==
    CASE N = 1 -> 5 [] N = 2 -> 4 [] N = 3 -> 3 [] N = 4 -> 2 [] N = 5 -> 1
      [] OTHER -> 0

ExpectedScore(sq) ==
    IF AssessedPositions(sq) = {} THEN 0
    ELSE IF LatestVerdict(sq) = "correct"
         THEN ExpectedFifths(Cardinality(AssessedPositions(sq)))
    ELSE 0

ExpectedTotal == SumSeq([i \in MIdx |-> ExpectedScore(mq[i])])

\* C5: compute_mastery returns a value between 0.0 and 1.0.
C5_MasteryBounds ==
    mres.done => (mres.den > 0 /\ 0 <= mres.num /\ mres.num <= mres.den)

\* a computed list that mixes a correct, an incorrect and an unassessed question
C5_Witness ==
    /\ mres.done
    /\ \E i, j, k \in MIdx :
          /\ AssessedPositions(mq[i]) # {} /\ LatestVerdict(mq[i]) = "correct"
          /\ AssessedPositions(mq[j]) # {} /\ LatestVerdict(mq[j]) = "incorrect"
          /\ AssessedPositions(mq[k]) = {} /\ mq[k].attempts # <<>>

\* C6: a question whose latest assessed attempt is correct and that has N
\* assessed attempts adds max(0, 1 - 0.2 * (N - 1)) to total_score, N counting
\* assessed attempts only; alone in the list it yields that value as mastery.
C6_RetryPenalty ==
    mres.done =>
        /\ \A i \in MIdx :
              (AssessedPositions(mq[i]) # {} /\ LatestVerdict(mq[i]) = "correct")
              => score_added(mq[i]) = ExpectedFifths(Cardinality(AssessedPositions(mq[i])))
        /\ \A i \in MIdx :
              (Answered = {i} /\ LatestVerdict(mq[i]) = "correct")
              => mres.num * 5 =
                     ExpectedFifths(Cardinality(AssessedPositions(mq[i]))) * mres.den

\* a correct question with three assessed attempts and unassessed ones beside
C6_Witness ==
    /\ mres.done
    /\ \E i \in MIdx :
          /\ Answered = {i}
          /\ LatestVerdict(mq[i]) = "correct"
          /\ Cardinality(AssessedPositions(mq[i])) = 3
          /\ Len(mq[i].attempts) > 3
          /\ mres.num * 5 = 3 * mres.den

\* C7: questions without an assessed attempt do not change the result, as
\* long as one question with an assessed attempt remains; one first-try
\* correct question among unanswered ones yields 1.0.
WithoutUnanswered == SelectSeq(mq, LAMBDA sq : AssessedPositions(sq) # {})

C7_IgnoresUnanswered ==
    (mres.done /\ Answered # {}) =>
        /\ mres.num * compute_mastery(WithoutUnanswered).den =
               compute_mastery(WithoutUnanswered).num * mres.den
        /\ \A i \in MIdx :
              (/\ Answered = {i}
               /\ AssessedPositions(mq[i]) = {1}
               /\ mq[i].attempts[1].assessment = "correct")
              => mres.num = mres.den

\* one first-try correct question between two unanswered questions
C7_Witness ==
    /\ mres.done
    /\ Len(mq) = 3
    /\ Answered = {2}
    /\ Len(mq[2].attempts) = 1
    /\ mq[2].attempts[1].assessment = "correct"
    /\ mq[1].attempts # <<>>
    /\ mres.num = mres.den

\* C8: compute_mastery is total_score / max_score, max_score being the number
\* of questions with an assessed attempt; a question whose latest assessed
\* attempt is incorrect adds 0 to total_score and 1 to max_score; the result
\* is 0.0 for an empty list and for a list without an assessed attempt.
C8_TotalOverMax ==
    mres.done =>
        /\ Answered = {} => mres.num = 0
        /\ Answered # {} =>
              mres.num * (5 * Cardinality(Answered)) =
                  ExpectedTotal * mres.den
        /\ max_score(mq) = Cardinality(Answered)
        /\ \A i \in Answered :
              LatestVerdict(mq[i]) = "incorrect"
              => (score_added(mq[i]) = 0 /\ max_added(mq[i]) = 1)

\* a first-try correct question and an incorrect one: mastery one half
C8_Witness ==
    /\ mres.done
    /\ Len(mq) = 2
    /\ Answered = {1, 2}
    /\ LatestVerdict(mq[1]) = "correct"
    /\ Cardinality(AssessedPositions(mq[1])) = 1
    /\ LatestVerdict(mq[2]) = "incorrect"
    /\ mres.num * 2 = mres.den

\* ======================================= properties (Spec): the use cases
\* position in the session of the question with the given id
PositionOf(s, question_id) ==
    CHOOSE i \in QuestionIdx(s) : sessions[s].questions[i].question_id = question_id

LastCall(op, err) == outcome.op = op /\ outcome.err = err

\* C11: a second register_question with the same question_id leaves the
\* questions of the session as the first call left them: same ids, same
\* size, the SessionQuestion and its attempts neither replaced nor reset.
RegisterTwiceKeepsQuestions ==
    outcome'.op = "register_question" =>
    \A s \in 1..MaxSessions, q \in QuestionIDs :
        (/\ s \in SessionIdx
         /\ q \in question_ids(sessions[s])
         /\ register_question(s, q))
        => (/\ sessions'[s].questions = sessions[s].questions
            /\ question_ids(sessions'[s]) = question_ids(sessions[s])
            /\ sessions' = sessions)

C11_RegisterTwice == [][RegisterTwiceKeepsQuestions]_vars

\* the second registration returned, in a session with room left whose one
\* question already carries an attempt
C11_Witness ==
    /\ LastCall("register_question", "ok")
    /\ \E s \in SessionIdx :
        /\ Len(sessions[s].questions) = 1
        /\ sessions[s].max_questions = 2
        /\ sessions[s].ended_at = None
        /\ sessions[s].questions[1].attempts # <<>>

\* C12: attach_assessment with an attempt the SessionQuestion does not hold
\* fails (list.index finds nothing) and leaves the attempts as they were;
\* every attempt that carries an assessment was stored by submit_answer, in
\* an earlier step, in that same SessionQuestion.
StoredAttempts(s, question_id) ==
    LET sq == sessions[s].questions[PositionOf(s, question_id)]
    IN  {sq.attempts[i] : i \in 1..Len(sq.attempts)}

AttachOfStrangerFails ==
    \/ outcome'.op # "attach_assessment"
    \/ outcome'.err = "ValueError" /\ sessions' = sessions
    \/ \A s \in 1..MaxSessions, q \in QuestionIDs, a \in Attempts, v \in Verdicts :
        ~ (/\ s \in SessionIdx
           /\ q \in question_ids(sessions[s])
           /\ a \notin StoredAttempts(s, q)
           /\ attach_assessment_call(s, q, a, v))

AssessedWereSubmitted ==
    sessions' # sessions =>
    \A s \in 1..Len(sessions') :
        \A q \in 1..Len(sessions'[s].questions) :
            LET after == sessions'[s].questions[q].attempts
                known == s \in SessionIdx /\ q \in QuestionIdx(s)
                before == IF known THEN sessions[s].questions[q].attempts ELSE <<>>
            IN  /\ Len(after) >= Len(before)
                /\ Len(after) > Len(before) => outcome'.op = "SubmitAnswer"
                /\ \A i \in 1..Len(after) :
                        after[i].assessment # NoAssessment
                        => /\ i <= Len(before)
                           /\ before[i].user_answer = after[i].user_answer
                           /\ before[i].answered_at = after[i].answered_at

C12_AttachNeedsMember == [][AttachOfStrangerFails /\ AssessedWereSubmitted]_vars

\* attach_assessment raised on a question that holds an attempt
C12_Witness ==
    /\ LastCall("attach_assessment", "ValueError")
    /\ \E s \in SessionIdx : \E q \in QuestionIdx(s) :
        sessions[s].questions[q].attempts # <<>>

\* C13: a call that raises leaves the plan as it was: no attempt added, no
\* assessment attached, no session added, no mastery changed.
Failing ==
    {"StartStudySession", "SubmitAnswer", "AssessQuestionOutcome",
     "UpdateKnowledgeUnitMastery", "register_question", "start_session",
     "attach_assessment"}

FailureChangesNothing ==
    (outcome'.op \in Failing /\ outcome'.err # "ok")
    => (/\ sessions' = sessions
        /\ completed_at' = completed_at
        /\ mastery_level' = mastery_level)

C13_FailureChangesNothing == [][FailureChangesNothing]_vars

\* AssessQuestionOutcome found no canonical question for an attempt that is
\* still unassessed
C13_Witness ==
    /\ LastCall("AssessQuestionOutcome", "QuestionNotFound")
    /\ \E s \in SessionIdx : \E q \in QuestionIdx(s) :
        latest_unassessed_attempt(sessions[s].questions[q]) # 0

\* C14: every use case reports a missing plan as LearningPlanNotFound, a
\* missing session as StudySessionNotFound, a question the session does not
\* hold as QuestionNotInStudySession, a missing canonical question as
\* QuestionNotFound and a unit the plan does not hold as KUNotInLearningPlan.
MissingPlanIsNamed ==
    /\ \A m \in 1..MaxQuestions :
        StartStudySession("missing", m) => outcome'.err = "LearningPlanNotFound"
    /\ \A s \in 1..MaxSessions + 1, q \in QuestionIDs :
        /\ \A a \in Answers :
            SubmitAnswer("missing", s, q, a) => outcome'.err = "LearningPlanNotFound"
        /\ AssessQuestionOutcome("missing", s, q)
            => outcome'.err = "LearningPlanNotFound"
    /\ \A k \in KnowledgeUnitIDs \cup {MissingKU} :
        UpdateKnowledgeUnitMastery("missing", k) => outcome'.err = "LearningPlanNotFound"
    /\ \A s \in 1..MaxSessions + 1 :
        GetStudySessionView("missing", s) => outcome'.err = "LearningPlanNotFound"

MissingSessionIsNamed ==
    \A s \in 1..MaxSessions + 1 :
        s \notin SessionIdx =>
            /\ \A q \in QuestionIDs :
                /\ \A a \in Answers :
                    SubmitAnswer("plan", s, q, a)
                        => outcome'.err = "StudySessionNotFound"
                /\ AssessQuestionOutcome("plan", s, q)
                        => outcome'.err = "StudySessionNotFound"
            /\ GetStudySessionView("plan", s) => outcome'.err = "StudySessionNotFound"

MissingQuestionIsNamed ==
    \A s \in SessionIdx, q \in QuestionIDs :
        /\ q \notin question_ids(sessions[s]) =>
            /\ \A a \in Answers :
                SubmitAnswer("plan", s, q, a)
                    => outcome'.err = "QuestionNotInStudySession"
            /\ AssessQuestionOutcome("plan", s, q)
                    => outcome'.err = "QuestionNotInStudySession"
        /\ (/\ q \in question_ids(sessions[s])
            /\ latest_unassessed_attempt(sessions[s].questions[PositionOf(s, q)]) # 0
            /\ question_repo[q] = None
            /\ AssessQuestionOutcome("plan", s, q))
           => outcome'.err = "QuestionNotFound"

MissingUnitIsNamed ==
    UpdateKnowledgeUnitMastery("plan", MissingKU)
        => outcome'.err = "KUNotInLearningPlan"

C14_NamedNotFound ==
    [][/\ MissingPlanIsNamed /\ MissingSessionIsNamed
       /\ MissingQuestionIsNamed /\ MissingUnitIsNamed]_vars

\* C15: a successful AssessQuestionOutcome attaches the assessment to the
\* attempt latest_unassessed_attempt returned, the most recent unassessed one
\* by position, and leaves every other attempt and every other question as
\* they were, also when two unassessed attempts are equal by value.
AssessGradesLatestUnassessed ==
    outcome'.op = "AssessQuestionOutcome" /\ outcome'.err = "ok" =>
    \A s \in 1..MaxSessions, q \in QuestionIDs :
        (/\ s \in SessionIdx
         /\ q \in question_ids(sessions[s])
         /\ AssessQuestionOutcome("plan", s, q))
        => LET iq == PositionOf(s, q)
               a == latest_unassessed_attempt(sessions[s].questions[iq])
           IN  \E v \in Verdicts :
                sessions' = [sessions EXCEPT
                                ![s].questions[iq].attempts[a].assessment = v]

C15_AssessLatestUnassessed == [][AssessGradesLatestUnassessed]_vars

\* C16: SubmitAnswer on an existing plan, session and session question
\* succeeds whatever the attempts already stored, whether the session has
\* ended or the plan is completed; it appends one attempt with no assessment
\* to that question, sets last_answered_at, and changes nothing else.
SubmitAppendsOneAttempt ==
    outcome'.op = "SubmitAnswer" =>
    \A s \in 1..MaxSessions, q \in QuestionIDs, a \in Answers :
        (/\ s \in SessionIdx
         /\ q \in question_ids(sessions[s])
         /\ SubmitAnswer("plan", s, q, a))
        => LET iq == PositionOf(s, q) IN
           /\ outcome'.err = "ok"
           /\ sessions' = [sessions EXCEPT
                ![s].questions[iq].attempts =
                    Append(@, [user_answer |-> a, answered_at |-> now,
                               assessment |-> NoAssessment]),
                ![s].questions[iq].last_answered_at = now]
           /\ UNCHANGED <<completed_at, mastery_level, question_repo>>

C16_SubmitAnswer == [][SubmitAppendsOneAttempt]_vars

\* a second unassessed attempt, submitted after the session ended, in a
\* completed plan
C16_Witness ==
    /\ LastCall("SubmitAnswer", "ok")
    /\ completed_at # None
    /\ \E s \in SessionIdx : \E q \in QuestionIdx(s) :
        LET sq == sessions[s].questions[q] IN
        /\ sessions[s].ended_at # None
        /\ Len(sq.attempts) = 2
        /\ sq.attempts[1].assessment = NoAssessment
        /\ sq.attempts[2].assessment = NoAssessment
        /\ sq.attempts[2].answered_at > sessions[s].ended_at
        /\ sq.last_answered_at = sq.attempts[2].answered_at

\* C17: UpdateKnowledgeUnitMastery for a unit k of the plan sets
\* k.mastery_level to compute_mastery over exactly the SessionQuestions of
\* every session whose knowledge_unit_id is k and whose status is not PENDING,
\* and returns k.
AllQuestions == Flatten(sessions)

Relevant(k) ==
    {i \in 1..Len(AllQuestions) :
        /\ AllQuestions[i].knowledge_unit_id = k
        /\ AssessedPositions(AllQuestions[i]) # {}}

ExpectedUnitTotal(k) ==
    SumSeq([i \in 1..Len(AllQuestions) |->
                IF i \in Relevant(k) THEN ExpectedScore(AllQuestions[i]) ELSE 0])

CollectsExactly(k) ==
    LET c == collected_questions(k) IN
    /\ Len(c) = Cardinality(Relevant(k))
    /\ \A i \in 1..Len(c) : c[i].knowledge_unit_id = k /\ status(c[i]) # "pending"
    /\ \A i \in Relevant(k) : \E j \in 1..Len(c) : c[j] = AllQuestions[i]

UpdateSetsMastery ==
    outcome'.op = "UpdateKnowledgeUnitMastery" =>
    \A k \in KnowledgeUnitIDs :
        UpdateKnowledgeUnitMastery("plan", k)
        => /\ CollectsExactly(k)
           /\ outcome'.err = "ok" /\ outcome'.ret = k
           /\ IF Relevant(k) = {}
              THEN mastery_level'[k].num = 0
              ELSE mastery_level'[k].num * Scale * Cardinality(Relevant(k))
                     = ExpectedUnitTotal(k) * mastery_level'[k].den
           /\ \A j \in KnowledgeUnitIDs \ {k} : mastery_level'[j] = mastery_level[j]
           /\ UNCHANGED <<sessions, completed_at>>

AnsweredOnlyA(s, ia, ib) ==
    /\ Len(sessions[s].questions) = 2
    /\ sessions[s].ended_at = None
    /\ sessions[s].questions[ia].knowledge_unit_id # None
    /\ sessions[s].questions[ib].knowledge_unit_id # None
    /\ Len(sessions[s].questions[ia].attempts) = 1
    /\ sessions[s].questions[ia].attempts[1].assessment = NoAssessment
    /\ sessions[s].questions[ib].attempts = <<>>

GradingAKeepsSessionOpen ==
    outcome'.op = "AssessQuestionOutcome" /\ outcome'.err = "ok" =>
    \A s \in SessionIdx, ia \in 1..2, ib \in 1..2 :
        (/\ ia # ib
         /\ AnsweredOnlyA(s, ia, ib)
         /\ AssessQuestionOutcome("plan", s, sessions[s].questions[ia].question_id)
         /\ sessions'[s].questions[ia].attempts[1].assessment = "correct")
        => (/\ status(sessions'[s].questions[ia]) = "correct"
            /\ status(sessions'[s].questions[ib]) = "pending"
            /\ ~is_completed(sessions'[s]))

C18_OneOfTwoAnswered == [][GradingAKeepsSessionOpen]_vars

\* the state the scenario ends in
C18_Witness ==
    /\ LastCall("AssessQuestionOutcome", "ok")
    /\ \E s \in SessionIdx :
        /\ Len(sessions[s].questions) = 2
        /\ sessions[s].ended_at = None
        /\ \E ia, ib \in 1..2 :
            /\ ia # ib
            /\ sessions[s].questions[ia].knowledge_unit_id # None
            /\ sessions[s].questions[ib].knowledge_unit_id # None
            /\ Len(sessions[s].questions[ia].attempts) = 1
            /\ sessions[s].questions[ia].attempts[1].assessment = "correct"
            /\ sessions[s].questions[ib].attempts = <<>>
            /\ status(sessions[s].questions[ia]) = "correct"
            /\ ~is_completed(sessions[s])

\* C19: the first complete() sets completed_at, every later call leaves it at
\* that value, and once is_completed() is true it is true in every later
\* state.
CompleteSetsOnce ==
    /\ outcome'.op = "complete" /\ complete
        => completed_at' = IF completed_at = None THEN now ELSE completed_at
    /\ completed_at # None => completed_at' = completed_at
    /\ plan_is_completed => plan_is_completed'

C19_CompleteIdempotent == [][CompleteSetsOnce]_vars

\* complete() was the last call, on a plan completed at an earlier reading of
\* the clock
C19_Witness ==
    /\ LastCall("complete", "ok")
    /\ completed_at # None
    /\ completed_at < now

\* C20: end_early sets ended_at on the first call and leaves it on every
\* later call; from then on can_ask_more_questions is false, register_question
\* with an id the session does not hold raises StudySessionFull, and the
\* questions of the session never grow.
EndEarlySetsOnce ==
    outcome'.op = "end_early" =>
    \A s \in SessionIdx :
        end_early(s) =>
            sessions'[s].ended_at =
                IF sessions[s].ended_at = None THEN now ELSE sessions[s].ended_at

EndedStaysEnded ==
    \A s \in SessionIdx :
        sessions[s].ended_at # None =>
            /\ ~can_ask_more_questions(sessions[s])
            /\ sessions'[s].ended_at = sessions[s].ended_at
            /\ ~can_ask_more_questions(sessions'[s])
            /\ Len(sessions'[s].questions) = Len(sessions[s].questions)
            /\ question_ids(sessions'[s]) = question_ids(sessions[s])
            /\ \A q \in QuestionIDs \ question_ids(sessions[s]) :
                register_question(s, q) => outcome'.err = "StudySessionFull"

C20_EndEarly == [][EndEarlySetsOnce /\ EndedStaysEnded]_vars

\* register_question raised on an ended session that still had room
C20_Witness ==
    /\ LastCall("register_question", "StudySessionFull")
    /\ \E s \in SessionIdx :
        /\ sessions[s].ended_at # None
        /\ Len(sessions[s].questions) < sessions[s].max_questions
        /\ sessions[s].ended_at < now

\* ============================ properties (Spec): attempts and assessments
\* the attempts a question held before the step, <<>> for a question the
\* step created
AttemptsBefore(s, q) ==
    IF s \in SessionIdx /\ q \in QuestionIdx(s)
    THEN sessions[s].questions[q].attempts ELSE <<>>

\* C22: the attempts of a SessionQuestion are append-only: the length never
\* decreases, a new attempt is added at the end, and user_answer and
\* answered_at of every stored position never change.
AttemptsAppendOnly ==
    sessions' # sessions =>
    \A s \in SessionIdx : \A q \in QuestionIdx(s) :
        LET before == sessions[s].questions[q].attempts
            after == sessions'[s].questions[q].attempts
        IN  /\ Len(after) >= Len(before)
            /\ Len(after) <= Len(before) + 1
            /\ \A i \in 1..Len(before) :
                /\ after[i].user_answer = before[i].user_answer
                /\ after[i].answered_at = before[i].answered_at

C22_AppendOnly == [][AttemptsAppendOnly]_vars

\* an attempt was assessed and a later one was stored behind it
C22_Witness ==
    \E s \in SessionIdx : \E q \in QuestionIdx(s) :
        LET a == sessions[s].questions[q].attempts IN
        /\ Len(a) = 2
        /\ a[1].assessment # NoAssessment
        /\ a[1].answered_at < a[2].answered_at
        /\ a[2].assessment = NoAssessment

\* C23: an assessment is permanent: no SubmitAnswer, AssessQuestionOutcome or
\* UpdateKnowledgeUnitMastery changes or removes the assessment an attempt
\* carries, and a successful AssessQuestionOutcome grades one attempt that
\* carried none.
AssessmentStays ==
    (/\ outcome'.op \in {"SubmitAnswer", "AssessQuestionOutcome",
                         "UpdateKnowledgeUnitMastery"}
     /\ sessions' # sessions)
    => /\ \A s \in SessionIdx : \A q \in QuestionIdx(s) :
            \A i \in 1..Len(sessions[s].questions[q].attempts) :
                sessions[s].questions[q].attempts[i].assessment # NoAssessment
                => sessions'[s].questions[q].attempts[i]
                        = sessions[s].questions[q].attempts[i]
       /\ outcome'.op = "AssessQuestionOutcome"
            => \E s \in SessionIdx : \E q \in QuestionIdx(s) :
                \E i \in 1..Len(sessions[s].questions[q].attempts) :
                    /\ sessions[s].questions[q].attempts[i].assessment = NoAssessment
                    /\ sessions'[s].questions[q].attempts[i].assessment \in Verdicts
                    /\ AssessedPositions(sessions'[s].questions[q])
                        = AssessedPositions(sessions[s].questions[q]) \cup {i}

C23_AssessmentPermanent == [][AssessmentStays]_vars

\* a second AssessQuestionOutcome graded the retry and left the verdict of
\* the first attempt in place
C23_Witness ==
    /\ LastCall("AssessQuestionOutcome", "ok")
    /\ \E s \in SessionIdx : \E q \in QuestionIdx(s) :
        LET a == sessions[s].questions[q].attempts IN
        /\ Len(a) = 2
        /\ a[1].assessment = "correct"
        /\ a[2].assessment = "incorrect"

\* C24: every mastery_level lies in [0, 1] and changes only through
\* UpdateKnowledgeUnitMastery, which leaves the units other than its own as
\* they were.
MasteryInRange ==
    \A k \in KnowledgeUnitIDs :
        /\ mastery_level[k].den > 0
        /\ 0 <= mastery_level[k].num
        /\ mastery_level[k].num <= mastery_level[k].den

MasteryChangesByUpdate ==
    mastery_level' # mastery_level =>
        /\ outcome'.op = "UpdateKnowledgeUnitMastery"
        /\ outcome'.err = "ok"
        /\ \A k \in KnowledgeUnitIDs \ {outcome'.ret} :
                mastery_level'[k] = mastery_level[k]

C24_MasteryWrites == []MasteryInRange /\ [][MasteryChangesByUpdate]_vars

\* unit 2 was raised to 1.0 while unit 1, which has a correct question of its
\* own, kept its initial 0.0
C24_Witness ==
    /\ LastCall("UpdateKnowledgeUnitMastery", "ok")
    /\ outcome.ret = 2
    /\ mastery_level[2].num = mastery_level[2].den
    /\ mastery_level[1].num = 0
    /\ \E i \in 1..Len(AllQuestions) :
        AllQuestions[i].knowledge_unit_id = 1 /\ status(AllQuestions[i]) = "correct"

\* C26: a session StartStudySession creates holds at most max_questions
\* questions, at creation and ever after (the generator returning at most the
\* count asked); every question the call saved to the question store is
\* registered in the session under its knowledge unit, and the session is
\* appended to the plan once.
StartCreatesOneSession ==
    (outcome'.op = "StartStudySession" /\ outcome'.err = "ok"
        /\ sessions' # sessions) =>
        LET created == sessions'[Len(sessions')] IN
        /\ Len(sessions') = Len(sessions) + 1
        /\ SubSeq(sessions', 1, Len(sessions)) = sessions
        /\ outcome'.ret = Len(sessions')
        /\ Len(created.questions) <= created.max_questions
        /\ \A q \in QuestionIDs :
            question_repo'[q] # question_repo[q] =>
                /\ question_repo[q] = None
                /\ \E i \in 1..Len(created.questions) :
                    /\ created.questions[i].question_id = q
                    /\ created.questions[i].knowledge_unit_id = question_repo'[q]
        /\ \A i \in 1..Len(created.questions) :
            /\ created.questions[i].attempts = <<>>
            /\ question_repo[created.questions[i].question_id] = None
            /\ question_repo'[created.questions[i].question_id]
                = created.questions[i].knowledge_unit_id

C26_CreatedSession == []CapacityHolds /\ [][StartCreatesOneSession]_vars

\* StartStudySession created a full session with a question of each unit
C26_Witness ==
    /\ LastCall("StartStudySession", "ok")
    /\ outcome.ret \in SessionIdx
    /\ LET created == sessions[outcome.ret] IN
        /\ created.max_questions = 2
        /\ Len(created.questions) = 2
        /\ created.questions[1].knowledge_unit_id # created.questions[2].knowledge_unit_id
        /\ \A i \in 1..2 :
            question_repo[created.questions[i].question_id]
                = created.questions[i].knowledge_unit_id

\* C27: once is_completed() of a session is true it is true after every
\* later register_question, submit_answer, attach_assessment and end_early.
CompletionStays ==
    \A s \in SessionIdx : is_completed(sessions[s]) => is_completed(sessions'[s])

C27_CompletionStable == [][CompletionStays]_vars

\* C27, amended: is_completed() of a session turns from true to false in one
\* way only, register_question adding a new question to a session that is not
\* ended and has room; under submit_answer, attach_assessment and end_early,
\* and once the session is ended or full, it stays true.
CompletionLostOnlyByRegistering ==
    sessions' # sessions =>
    \A s \in SessionIdx :
        (is_completed(sessions[s]) /\ ~is_completed(sessions'[s]))
        => /\ outcome'.op = "register_question"
           /\ outcome'.err = "ok"
           /\ can_ask_more_questions(sessions[s])
           /\ Len(sessions'[s].questions) = Len(sessions[s].questions) + 1

C27_CompletionStableUnlessRegistered == [][CompletionLostOnlyByRegistering]_vars

\* a retry was submitted to a session completed by its answers, not ended,
\* and the session is still completed
C27_Witness ==
    /\ LastCall("SubmitAnswer", "ok")
    /\ \E s \in SessionIdx :
        /\ sessions[s].ended_at = None
        /\ is_completed(sessions[s])
        /\ can_ask_more_questions(sessions[s])
        /\ \E q \in QuestionIdx(s) :
            LET a == sessions[s].questions[q].attempts IN
            /\ Len(a) = 2
            /\ a[1].assessment # NoAssessment
            /\ a[2].assessment = NoAssessment

\* C29: with k unassessed attempts stored and no SubmitAnswer in between, k
\* consecutive AssessQuestionOutcome executions succeed, each grading the
\* newest attempt still unassessed, and the next one fails with
\* NoUnassessedAnswerAttempt and grades nothing.
UnassessedPositions(sq) ==
    {i \in 1..Len(sq.attempts) : sq.attempts[i].assessment = NoAssessment}

AssessGradesNewestFirst ==
    outcome'.op = "AssessQuestionOutcome" =>
    \A s \in SessionIdx, q \in QuestionIDs :
        (/\ q \in question_ids(sessions[s])
         /\ question_repo[q] # None
         /\ AssessQuestionOutcome("plan", s, q))
        => LET iq == PositionOf(s, q)
               U == UnassessedPositions(sessions[s].questions[iq])
           IN  IF U = {}
               THEN outcome'.err = "NoUnassessedAnswerAttempt" /\ sessions' = sessions
               ELSE /\ outcome'.err = "ok"
                    /\ UnassessedPositions(sessions'[s].questions[iq])
                        = U \ {LastPosition(U)}

C29_AssessDrainsUnassessed == [][AssessGradesNewestFirst]_vars

\* ================================= properties (SpecMastery): status
\* C30: status and compute_mastery read the same latest assessed attempt: a
\* question whose status is PENDING or INCORRECT adds 0 to total_score, a
\* question adds a positive score only if its status is CORRECT, and a
\* question adds 1 to max_score exactly when its status is not PENDING.
C30_StatusAgreesWithMastery ==
    \A i \in MIdx :
        /\ status(mq[i]) \in {"pending", "incorrect"} => score_added(mq[i]) = 0
        /\ score_added(mq[i]) > 0 => status(mq[i]) = "correct"
        /\ max_added(mq[i]) = 1 <=> status(mq[i]) # "pending"
        /\ max_added(mq[i]) \in {0, 1}

\* compute_mastery ran on a list holding a question answered correctly, then
\* incorrectly, then once more without an assessment yet
C30_Witness ==
    /\ mres.done
    /\ \E i \in MIdx :
        /\ Len(mq[i].attempts) = 3
        /\ mq[i].attempts[1].assessment = "correct"
        /\ mq[i].attempts[2].assessment = "incorrect"
        /\ mq[i].attempts[3].assessment = NoAssessment
        /\ status(mq[i]) = "incorrect"
        /\ max_added(mq[i]) = 1

\* ============================================== properties (SpecBatch)
\* the count the generator was asked for the j-th selected unit, 0 if it
\* was not called for that unit
Requested(j) ==
    LET hits == {c \in 1..Len(batch.calls) :
                    batch.calls[c].ku = batch.knowledge_units[j]}
    IN  IF hits = {} THEN 0 ELSE batch.calls[CHOOSE c \in hits : TRUE].count

\* C25: for the i-th of n selected units (from 0, in selection order) the
\* generator is asked for floor(max_questions / n) + (1 if i < max_questions
\* mod n else 0) questions, and is not called when that is 0; the counts sum
\* to max_questions and differ from one another by at most 1.
C25_BatchCounts ==
    LET n == Len(batch.knowledge_units)
        m == batch.max_questions
        passed == 1..batch.i
    IN  /\ \A c \in 1..Len(batch.calls) : batch.calls[c].count > 0
        /\ Len(batch.calls) = Cardinality({j \in passed : Requested(j) > 0})
        /\ \A j \in passed :
            Requested(j) = (m \div n) + (IF j - 1 < m % n THEN 1 ELSE 0)
        /\ \A j \in 1..n : j \notin passed => Requested(j) = 0
        /\ \A c, d \in 1..Len(batch.calls) :
            c < d => \E j, k \in passed :
                        /\ j < k
                        /\ batch.knowledge_units[j] = batch.calls[c].ku
                        /\ batch.knowledge_units[k] = batch.calls[d].ku
        /\ (n > 0 /\ batch.i = n) =>
            /\ SumSeq([j \in 1..n |-> Requested(j)]) = m
            /\ \A j, k \in 1..n : Requested(j) - Requested(k) <= 1

\* the loop ended for three units and max_questions = 2: one question asked
\* for each of the first two units, no call for the third
C25_Witness ==
    /\ Len(batch.knowledge_units) = 3
    /\ batch.i = 3
    /\ batch.max_questions = 2
    /\ Len(batch.calls) = 2
    /\ batch.calls[1] = [ku |-> batch.knowledge_units[1], count |-> 1]
    /\ batch.calls[2] = [ku |-> batch.knowledge_units[2], count |-> 1]

\* =============================================== properties (SpecRace)
Finished(p) == exec[p].pc = "done"

StoredPlan == heap[plans]

\* the stored plan holds the attempt execution p submitted
HoldsAnswerOf(p) ==
    \E i \in 1..Len(StoredPlan.attempts) :
        StoredPlan.attempts[i].user_answer = answer_of(p)

\* the stored plan holds the attempt execution p graded, with p's verdict
HoldsVerdictOf(p) ==
    \E i \in 1..Len(StoredPlan.attempts) :
        StoredPlan.attempts[i] =
            [exec[p].attempt[1] EXCEPT !.assessment = exec[p].verdict]

\* p saved first while q had loaded the plan and not saved, and q saved later
SavedFirstOfTwo(p, q) ==
    /\ p # q
    /\ Finished(p) /\ Finished(q)
    /\ exec[p].saved = 1 /\ exec[p].shared_load
    /\ exec[q].saved = 2

\* C21: when two executions on one plan both load before either saves, the
\* later save overwrites the earlier one: neither fails and the stored plan
\* lacks the mutation of the execution that saved first.
C21_LaterSaveOverwrites ==
    \A p, q \in Executions :
        (SavedFirstOfTwo(p, q) /\ exec[p].op = "SubmitAnswer")
        => (/\ exec[p].err = "ok" /\ exec[q].err = "ok"
            /\ ~HoldsAnswerOf(p))

\* C21, amended: both executions load the one object the repository holds,
\* so no update is lost: from its save on, the stored plan holds the attempt
\* or the assessment of every execution that saved, the one that saved first
\* included, and an execution that saved did not fail.
C21_BothUpdatesKept ==
    \A p \in Executions :
        HasSaved(p) =>
            /\ exec[p].err = "ok"
            /\ exec[p].op = "SubmitAnswer" => HoldsAnswerOf(p)
            /\ exec[p].op = "AssessQuestionOutcome" => HoldsVerdictOf(p)

\* two SubmitAnswer executions overlapped and the stored plan holds both
\* attempts
C21_Witness ==
    \E p, q \in Executions :
        /\ SavedFirstOfTwo(p, q)
        /\ exec[p].op = "SubmitAnswer" /\ exec[q].op = "SubmitAnswer"
        /\ HoldsAnswerOf(p) /\ HoldsAnswerOf(q)

\* C28: when two AssessQuestionOutcome executions read the same latest
\* unassessed attempt before either attaches, the attempt ends up with one
\* assessment, the one attached first; the second does not replace it.
C28_FirstAssessmentStays ==
    \A p, q \in Executions :
        (/\ p # q
         /\ Finished(p) /\ Finished(q)
         /\ exec[p].op = "AssessQuestionOutcome"
         /\ exec[q].op = "AssessQuestionOutcome"
         /\ exec[p].pos # 0 /\ exec[p].pos = exec[q].pos
         /\ exec[p].attached = 1 /\ exec[p].shared_read)
        => StoredPlan.attempts[exec[p].pos].assessment = exec[p].verdict

====
